---- MODULE Spec2Model ----
(***************************************************************************)
(* Threaded comment engine of news_aggregator: the comment store, the vote *)
(* ledger with its denormalised cached_score, the soft-delete / moderation *)
(* flags, comment flags and the per-user, per-action cache throttle.       *)
(*                                                                         *)
(* Every request handler is a process p in Procs.  A handler is cut into   *)
(* one action per statement that touches shared state (one ORM query, one  *)
(* cache call); the database runs in autocommit, so these statements are   *)
(* the atomic units that concurrent requests interleave.                   *)
(***************************************************************************)
EXTENDS Integers, Sequences, FiniteSets, TLC

\* ------------------------------------------------------------------ bounds
MaxProcs == 2          \* request slots that may be in flight together
MaxComments == 12      \* comment rows the store may hold
MaxApiComments == 2    \* comment rows written when every operation is in play
MaxRawLen == 2         \* characters of a submitted vote value string
MaxScore == 3          \* |cached_score| the model follows
MaxTop == 12           \* top-level comments of a stored article that is listed
MaxChain == 22         \* replies below one another in a stored thread
MaxFan == 11           \* direct replies of one stored comment

\* ------------------------------------------------------- program constants
MAX_COMMENT_LENGTH == 5000
MAX_DEPTH == 5
CREATE_WINDOW == 10
REPLY_WINDOW == 10
VOTE_WINDOW == 2

Procs == 1 .. MaxProcs
Users == {"u1", "u2", "s1"}
Anon == "anon"
Callers == Users \cup {Anon}
Articles == {1, 2}

is_authenticated(u) == u \in Users
is_staff(u) == u = "s1"

\* ------------------------------------------------- vote payload (parse_value)
\* A Python value as far as int() tells values apart:
\*   none | str (s: characters) | int (n) | float (n: tenths) | bool (n: 0/1)
PyNone == [t |-> "none", s |-> << >>, n |-> 0]
PyStr(s) == [t |-> "str", s |-> s, n |-> 0]
PyInt(n) == [t |-> "int", s |-> << >>, n |-> n]
PyFloat(tenths) == [t |-> "float", s |-> << >>, n |-> tenths]
PyBool(b) == [t |-> "bool", s |-> << >>, n |-> IF b THEN 1 ELSE 0]

Chars == {"-", "+", "0", "1", "2", ".", " ", "x"}
Digits == {"0", "1", "2"}
DigitVal(c) == CASE c = "0" -> 0 [] c = "1" -> 1 [] c = "2" -> 2 [] OTHER -> 0

RECURSIVE LStrip(_)
LStrip(s) == IF s # << >> /\ Head(s) = " " THEN LStrip(Tail(s)) ELSE s

RECURSIVE RStrip(_)
RStrip(s) ==
    IF s # << >> /\ s[Len(s)] = " " THEN RStrip(SubSeq(s, 1, Len(s) - 1)) ELSE s

Strip(s) == RStrip(LStrip(s))

RECURSIVE DecimalValue(_)
DecimalValue(ds) ==
    IF ds = << >> THEN 0
    ELSE 10 * DecimalValue(SubSeq(ds, 1, Len(ds) - 1)) + DigitVal(ds[Len(ds)])

AllDigits(ds) == ds # << >> /\ \A i \in 1 .. Len(ds) : ds[i] \in Digits

\* int(str): surrounding whitespace, one optional sign, then digits only.
StrToInt(s) ==
    LET b == Strip(s)
        signed == b # << >> /\ Head(b) \in {"-", "+"}
        ds == IF signed THEN Tail(b) ELSE b
    IN  IF AllDigits(ds)
        THEN [ok |-> TRUE,
              n |-> IF signed /\ Head(b) = "-" THEN 0 - DecimalValue(ds)
                    ELSE DecimalValue(ds)]
        ELSE [ok |-> FALSE, n |-> 0]

\* int(float) truncates toward zero.
Trunc(tenths) == IF tenths >= 0 THEN tenths \div 10 ELSE 0 - ((0 - tenths) \div 10)

\* int(raw) with TypeError / ValueError reported as ok = FALSE.
PyIntOf(raw) ==
    CASE raw.t = "none" -> [ok |-> FALSE, n |-> 0]
      [] raw.t = "str" -> StrToInt(raw.s)
      [] raw.t = "float" -> [ok |-> TRUE, n |-> Trunc(raw.n)]
      [] OTHER -> [ok |-> TRUE, n |-> raw.n]

\* re.search(r'value[^-0-9]*(-?1)', body) on a body "value" ++ rest.
RECURSIVE SkipNonNumeric(_)
SkipNonNumeric(s) ==
    IF s # << >> /\ Head(s) \notin (Digits \cup {"-"})
    THEN SkipNonNumeric(Tail(s)) ELSE s

RegexValue(rest) ==
    LET r == SkipNonNumeric(rest)
    IN  IF r # << >> /\ Head(r) = "1" THEN PyStr(<<"1">>)
        ELSE IF Len(r) >= 2 /\ r[1] = "-" /\ r[2] = "1" THEN PyStr(<<"-", "1">>)
        ELSE PyNone

\* A submitted payload: param is 'value' of the form or query string (none
\* when absent); kind and body describe the raw request body:
\*   empty | qs "value=<s>" | json {"value": <body>} | text "value<s>"
Payload(param, kind, body) == [param |-> param, kind |-> kind, body |-> body]

\* parse_qs decodes '+' as a space and drops a blank value.
QsDecode(s) == [i \in 1 .. Len(s) |-> IF s[i] = "+" THEN " " ELSE s[i]]

parse_value(pl) ==
    IF pl.param.t # "none" THEN pl.param
    ELSE CASE pl.kind = "empty" -> PyNone
           [] pl.kind = "qs" -> IF pl.body.s # << >> THEN PyStr(QsDecode(pl.body.s))
                                ELSE PyNone
           [] pl.kind = "json" -> pl.body
           [] OTHER -> RegexValue(pl.body.s)

\* Lines 637-645: the validated vote value, 0 when the request is refused.
ValidVoteValue(v) == v \in {-1, 1}

new_val_of(pl) ==
    LET r == PyIntOf(parse_value(pl))
    IN  IF ~r.ok THEN 0
        ELSE IF ~ValidVoteValue(r.n) THEN 0
        ELSE IF r.n > 0 THEN 1 ELSE -1


\* ------------------------------------------------------------------- content
\* A comment body: the text it carries (text), the number of characters of
\* that text (len) and whether whitespace surrounds it (pad).
Content(text, len, pad) == [text |-> text, len |-> len, pad |-> pad]
NoContent == Content("", 0, FALSE)

\* str.strip(), then the two checks of the handlers (empty, too long).
StripContent(c) == [c EXCEPT !.pad = FALSE]
ContentError(c) == c.len = 0 \/ c.len > MAX_COMMENT_LENGTH

\* --------------------------------------------------------------------- state
VARIABLES
    comments,   \* Comment table: sequence of rows, primary key = index
    votes,      \* CommentVote table: set of rows [id, comment, user, value]
    flags,      \* CommentFlag table: set of rows [id, comment, user, reason, note]
    cache,      \* throttle markers: (action, user) -> seconds left to live
    req,        \* per request slot: the handler's position and locals
    out,        \* the request that the latest step answered, with its response
    pre,        \* the tables as the only request in flight found them
    since       \* (action, user) -> seconds since _throttle last allowed it

vars == <<comments, votes, flags, cache, req, out, pre, since>>

ThrottleActions == {"create", "reply", "vote"}
ThrottleKeys == ThrottleActions \X Users

NoVote == [id |-> 0, value |-> 0]

NoComment ==
    [article |-> 0, user |-> Anon, parent |-> 0, content |-> NoContent,
     depth |-> 0, is_edited |-> FALSE, edited_at |-> 0,
     is_removed_moderator |-> FALSE, is_deleted_by_user |-> FALSE,
     is_approved |-> TRUE, cached_score |-> 0, created_at |-> 0,
     updated_at |-> 0]

\* Mutant of NewComment: save() caps the stored depth at MAX_DEPTH.
NewCommentCapped(article, user, parent, parentObj, content, stamp) ==
    [NoComment EXCEPT
        !.article = article, !.user = user, !.parent = parent,
        !.content = content,
        !.depth = IF parent = 0 THEN 0
                  ELSE IF parentObj.depth + 1 > MAX_DEPTH THEN MAX_DEPTH
                  ELSE parentObj.depth + 1,
        !.created_at = stamp, !.updated_at = stamp]

\* Mutant of NewComment: save() is not overridden, depth stays at its default.
NewCommentFlat(article, user, parent, parentObj, content, stamp) ==
    [NoComment EXCEPT
        !.article = article, !.user = user, !.parent = parent,
        !.content = content, !.created_at = stamp, !.updated_at = stamp]

\* Comment.save() of a new row (models.py 126-133): depth from the parent
\* object the caller holds, every other field at its declared default.
NewComment(article, user, parent, parentObj, content, stamp) ==
    [NoComment EXCEPT
        !.article = article, !.user = user, !.parent = parent,
        !.content = content,
        !.depth = IF parent # 0 THEN parentObj.depth + 1 ELSE 0,
        !.created_at = stamp, !.updated_at = stamp]

get_display_depth(c) == IF c.depth < MAX_DEPTH THEN c.depth ELSE MAX_DEPTH

NoPayload == Payload(PyNone, "empty", PyNone)

\* History: the tables at the arrival of a request that arrived while no
\* other request was in flight; not valid once another request has arrived.
NoPre == [valid |-> FALSE, comments |-> << >>, votes |-> {}, flags |-> {}]

\* The JSON body of a response that carries none.
NoBody == [results |-> << >>]

Idle ==
    [pc |-> "idle", op |-> "none", method |-> "none", user |-> Anon,
     target |-> 0, test |-> FALSE, payload |-> NoPayload,
     content |-> NoContent, stamp |-> 0, remove |-> "", reason |-> "",
     note |-> NoContent, new_val |-> 0, vote |-> NoVote, delta |-> 0,
     obj |-> 0,
     snap |-> NoComment, status |-> 0, score |-> 0, user_vote |-> 0,
     page |-> PyNone, body |-> NoBody, notice |-> "none",
     pre |-> NoPre]

Free(p) == req[p].pc = "idle"
Quiet == \A p \in Procs : Free(p)

CommentIds == 1 .. Len(comments)

\* The handler returns: the response with the request's inputs.
Respond(r, status) ==
    [Idle EXCEPT !.pc = "done", !.op = r.op, !.method = r.method,
                 !.user = r.user, !.target = r.target, !.test = r.test,
                 !.payload = r.payload, !.content = r.content,
                 !.stamp = r.stamp, !.remove = r.remove, !.reason = r.reason, !.note = r.note,
                 !.page = r.page,
                 !.status = status]

RespondVote(r, score, user_vote) ==
    [Respond(r, 200) EXCEPT !.score = score, !.user_vote = user_vote]

\* Slot p moves on to r (a local the handler no longer reads is reset to
\* its default as the handler moves on).  A request that returns frees its
\* slot and is shown in out until Deliver hands the response to the client,
\* which is the next step.
Put(p, r) ==
    /\ out = Idle
    /\ IF r.pc = "done"
       THEN /\ req' = [req EXCEPT ![p] = Idle]
            /\ out' = [r EXCEPT !.pre = pre]
            /\ pre' = NoPre
       ELSE /\ req' = [req EXCEPT ![p] = r]
            /\ UNCHANGED <<out, pre>>

Deliver ==
    /\ out # Idle
    /\ out' = Idle
    /\ UNCHANGED <<comments, votes, flags, cache, req, pre, since>>

\* A request arrives in slot p and runs up to r.
Enter(p, r) ==
    LET found == IF Quiet
                 THEN [valid |-> TRUE, comments |-> comments, votes |-> votes,
                       flags |-> flags]
                 ELSE NoPre
    IN  /\ out = Idle
        /\ IF r.pc = "done"
           THEN /\ req' = [req EXCEPT ![p] = Idle]
                /\ out' = [r EXCEPT !.pre = found]
                /\ pre' = NoPre
           ELSE /\ req' = [req EXCEPT ![p] = r]
                /\ out' = Idle
                /\ pre' = found

\* ------------------------------------------------------------------ throttle
\* _throttle(user, action, seconds), views.py 373-381.  The marker of key
\* "comments:throttle:<action>:<user.id>" is live while its time to live is
\* positive; cache.get and cache.set are two separate cache calls.
Window(action) ==
    CASE action = "create" -> CREATE_WINDOW
      [] action = "reply" -> REPLY_WINDOW
      [] OTHER -> VOTE_WINDOW

\* Mutant of ThrottleKey: one marker per user, whatever the action.
ThrottleKeyPerUser(r) == <<"vote", r.user>>

ThrottleKey(r) == <<r.op, r.user>>

\* History: since[k] counts the seconds since the latest call of _throttle
\* that returned True for k, up to the window of k; a key never allowed
\* stands at its window.
NeverAllowed == [k \in ThrottleKeys |-> Window(k[1])]

\* What the handler does once _throttle returned True, up to its next
\* statement on shared state: the request's own validation.
AfterThrottle(r) ==
    CASE r.op = "vote" ->
            IF r.method = "DELETE" THEN [r EXCEPT !.pc = "d_get"]
            ELSE IF new_val_of(r.payload) = 0 THEN Respond(r, 400)
            ELSE [r EXCEPT !.pc = "v_get", !.new_val = new_val_of(r.payload),
                           !.snap = NoComment]
      [] OTHER ->
            IF ContentError(StripContent(r.content)) THEN Respond(r, 400)
            ELSE [r EXCEPT !.pc = "insert", !.content = StripContent(r.content)]

\* Mutant of ThrottleGet: a DELETE on the vote endpoint passes the throttle
\* unseen.
ThrottleGetCastsOnly(p) ==
    /\ req[p].pc = "t_get"
    /\ Put(p, IF req[p].op = "vote" /\ req[p].method = "DELETE"
              THEN [req[p] EXCEPT !.pc = "d_get"]
              ELSE IF ~is_authenticated(req[p].user) THEN Respond(req[p], 429)
              ELSE IF cache[ThrottleKey(req[p])] > 0 THEN Respond(req[p], 429)
              ELSE [req[p] EXCEPT !.pc = "t_set"])
    /\ UNCHANGED <<comments, votes, flags, cache, since>>

\* Mutant of ThrottleGet: the caller's authentication is not looked at.
ThrottleGetAnyCaller(p) ==
    /\ req[p].pc = "t_get"
    /\ Put(p, IF is_authenticated(req[p].user) /\ cache[ThrottleKey(req[p])] > 0
              THEN Respond(req[p], 429)
              ELSE [req[p] EXCEPT !.pc = "t_set"])
    /\ UNCHANGED <<comments, votes, flags, cache, since>>

ThrottleGet(p) ==
    /\ req[p].pc = "t_get"
    /\ Put(p, IF ~is_authenticated(req[p].user) THEN Respond(req[p], 429)
              ELSE IF cache[ThrottleKey(req[p])] > 0 THEN Respond(req[p], 429)
              ELSE [req[p] EXCEPT !.pc = "t_set"])
    /\ UNCHANGED <<comments, votes, flags, cache, since>>

\* Mutant of ThrottleSet: a create or a reply validates its content before
\* it sets the marker.
ThrottleSetValidatesFirst(p) ==
    /\ req[p].pc = "t_set"
    /\ LET bad == /\ req[p].op \in {"create", "reply"}
                  /\ ContentError(StripContent(req[p].content))
       IN  /\ cache' = IF bad THEN cache
                       ELSE [cache EXCEPT ![ThrottleKey(req[p])] = Window(req[p].op)]
           /\ since' = IF bad THEN since
                       ELSE [since EXCEPT ![<<req[p].op, req[p].user>>] = 0]
    /\ Put(p, AfterThrottle(req[p]))
    /\ UNCHANGED <<comments, votes, flags>>

ThrottleSet(p) ==
    /\ req[p].pc = "t_set"
    /\ cache' = [cache EXCEPT ![ThrottleKey(req[p])] = Window(req[p].op)]
    /\ since' = [since EXCEPT ![<<req[p].op, req[p].user>>] = 0]
    /\ Put(p, AfterThrottle(req[p]))
    /\ UNCHANGED <<comments, votes, flags>>

\* d seconds pass: every live marker is d seconds closer to expiry.
Elapse(d) ==
    /\ out = Idle
    /\ \E k \in ThrottleKeys : cache[k] > 0
    /\ cache' = [k \in ThrottleKeys |-> IF cache[k] > d THEN cache[k] - d ELSE 0]
    /\ since' = [k \in ThrottleKeys |->
                    IF since[k] + d < Window(k[1]) THEN since[k] + d
                    ELSE Window(k[1])]
    /\ UNCHANGED <<comments, votes, flags, req, out, pre>>

\* ---------------------------------------------------------------- vote ledger
VoteRows(c, u) == {v \in votes : v.comment = c /\ v.user = u}

\* Mutant of VoteUniqueViolation: the table has no unique_together.
VoteNotUnique(c, u) == FALSE

\* unique_together ('comment', 'user') and the check constraint
\* comment_vote_value_valid of CommentVote (models.py 180-191).
VoteUniqueViolation(c, u) == VoteRows(c, u) # {}
VoteCheckViolation(value) == value \notin {-1, 1}

\* Primary key of the next CommentVote row.  Keys are only ever compared for
\* equality with the key a request holds, so the smallest key that no row
\* and no request in flight carries stands for the next key of the sequence.
VoteIdsInUse == {v.id : v \in votes} \cup {req[p].vote.id : p \in Procs}
NextVoteId ==
    CHOOSE i \in 1 .. (Cardinality(VoteIdsInUse) + 1) :
        /\ i \notin VoteIdsInUse
        /\ \A j \in 1 .. (i - 1) : j \in VoteIdsInUse

RECURSIVE SumValues(_)
SumValues(S) ==
    IF S = {} THEN 0
    ELSE LET v == CHOOSE x \in S : TRUE IN v.value + SumValues(S \ {v})

VoteSum(c) == SumValues({v \in votes : v.comment = c})

UserVote(c, u) == SumValues(VoteRows(c, u))

\* comment_vote, views.py 592-604: login_required, get_object_or_404, then
\* the throttle unless the request comes through the test server.
BeginVote(p, u, c, method, pl, test) ==
    /\ Free(p)
    /\ LET r == [Idle EXCEPT !.op = "vote", !.method = method, !.user = u,
                             !.target = c, !.test = test, !.payload = pl]
       IN  Enter(p, IF ~is_authenticated(u) THEN Respond(r, 302)
                    ELSE IF c \notin CommentIds THEN Respond(r, 404)
                    ELSE LET r2 == [r EXCEPT !.snap = comments[c]]
                         IN  IF test THEN AfterThrottle(r2)
                             ELSE [r2 EXCEPT !.pc = "t_get"])
    /\ UNCHANGED <<comments, votes, flags, cache, since>>

\* Mutant of AfterVoteFound: a switch counts the new value only.
AfterVoteFoundNewOnly(r, row) ==
    IF row.value = r.new_val
    THEN [r EXCEPT !.pc = "refresh", !.user_vote = row.value, !.delta = 0,
                   !.new_val = 0]
    ELSE [r EXCEPT !.pc = "v_save", !.vote = [id |-> row.id, value |-> row.value],
                   !.delta = r.new_val, !.user_vote = r.new_val]

\* What follows get_or_create returning an existing row (lines 654-663).
AfterVoteFound(r, row) ==
    IF row.value = r.new_val
    THEN [r EXCEPT !.pc = "refresh", !.user_vote = row.value, !.delta = 0,
                   !.new_val = 0]
    ELSE [r EXCEPT !.pc = "v_save", !.vote = [id |-> row.id, value |-> row.value],
                   !.delta = r.new_val - row.value, !.user_vote = r.new_val]

\* get_or_create: the initial get().
VoteGet(p) ==
    /\ req[p].pc = "v_get"
    /\ LET rows == VoteRows(req[p].target, req[p].user)
       IN  Put(p, IF rows = {} THEN [req[p] EXCEPT !.pc = "v_insert"]
                  ELSE IF Cardinality(rows) > 1 THEN Respond(req[p], 500)
                  ELSE AfterVoteFound(req[p], CHOOSE v \in rows : TRUE))
    /\ UNCHANGED <<comments, votes, flags, cache, since>>

\* get_or_create: create() inside its savepoint; IntegrityError leads to the
\* second get().
VoteInsert(p) ==
    /\ req[p].pc = "v_insert"
    /\ LET r == req[p]
       IN  IF VoteUniqueViolation(r.target, r.user) \/ VoteCheckViolation(r.new_val)
           THEN /\ Put(p, [r EXCEPT !.pc = "v_reget"])
                /\ UNCHANGED votes
           ELSE /\ votes' = votes \cup {[id |-> NextVoteId, comment |-> r.target,
                                         user |-> r.user, value |-> r.new_val]}
                /\ Put(p, [r EXCEPT !.pc = "score", !.delta = r.new_val,
                                    !.user_vote = r.new_val, !.new_val = 0])
    /\ UNCHANGED <<comments, flags, cache, since>>

VoteReget(p) ==
    /\ req[p].pc = "v_reget"
    /\ LET rows == VoteRows(req[p].target, req[p].user)
       IN  Put(p, IF Cardinality(rows) # 1 THEN Respond(req[p], 500)
                  ELSE AfterVoteFound(req[p], CHOOSE v \in rows : TRUE))
    /\ UNCHANGED <<comments, votes, flags, cache, since>>

\* vote.save(update_fields=['value', 'updated_at']): UPDATE by primary key;
\* no row updated raises DatabaseError.
VoteSave(p) ==
    /\ req[p].pc = "v_save"
    /\ LET r == req[p]
           rows == {v \in votes : v.id = r.vote.id}
       IN  IF rows = {} \/ VoteCheckViolation(r.new_val)
           THEN /\ Put(p, Respond(r, 500))
                /\ UNCHANGED votes
           ELSE /\ votes' = (votes \ rows) \cup
                               {[v EXCEPT !.value = r.new_val] : v \in rows}
                /\ Put(p, [r EXCEPT !.pc = "score", !.vote = NoVote, !.new_val = 0])
    /\ UNCHANGED <<comments, flags, cache, since>>

\* DELETE branch, lines 668-676.
VoteDeleteGet(p) ==
    /\ req[p].pc = "d_get"
    /\ LET r == req[p]
           rows == VoteRows(r.target, r.user)
       IN  Put(p, IF rows = {} THEN RespondVote(r, r.snap.cached_score, 0)
                  ELSE IF Cardinality(rows) > 1 THEN Respond(r, 500)
                  ELSE LET v == CHOOSE x \in rows : TRUE
                       IN  [r EXCEPT !.pc = "d_delete", !.snap = NoComment,
                                     !.vote = [id |-> v.id, value |-> v.value],
                                     !.delta = 0 - v.value, !.user_vote = 0])
    /\ UNCHANGED <<comments, votes, flags, cache, since>>

VoteDelete(p) ==
    /\ req[p].pc = "d_delete"
    /\ votes' = {v \in votes : v.id # req[p].vote.id}
    /\ Put(p, [req[p] EXCEPT !.pc = "score", !.vote = NoVote])
    /\ UNCHANGED <<comments, flags, cache, since>>

\* Mutant of ScoreOperand: update(cached_score=delta), the F() expression
\* left out.
ScoreOperandNone(r, current) == 0

\* Comment.objects.filter(pk=...).update(cached_score=F('cached_score') + delta):
\* F('cached_score') is the value the row holds when the UPDATE runs.
ScoreOperand(r, current) == current

VoteScore(p) ==
    /\ req[p].pc = "score"
    /\ LET r == req[p]
           new == ScoreOperand(r, comments[r.target].cached_score) + r.delta
       IN  /\ new \in (0 - MaxScore) .. MaxScore
           /\ comments' = [comments EXCEPT ![r.target].cached_score = new]
           /\ Put(p, [r EXCEPT !.pc = "refresh", !.delta = 0])
    /\ UNCHANGED <<votes, flags, cache, since>>

\* comment.refresh_from_db(fields=['cached_score']) and the response.
VoteRefresh(p) ==
    /\ req[p].pc = "refresh"
    /\ Put(p, RespondVote(req[p], comments[req[p].target].cached_score,
                          req[p].user_vote))
    /\ UNCHANGED <<comments, votes, flags, cache, since>>

\* The ledger statements of comment_vote that a first vote, a repeated vote
\* and a retraction reach.  vote.save() follows only a switch to the other
\* value, the second get() of get_or_create only a concurrent insert.
LedgerStep(p) ==
    \/ VoteGet(p)
    \/ VoteInsert(p)
    \/ VoteDeleteGet(p)
    \/ VoteDelete(p)
    \/ VoteScore(p)
    \/ VoteRefresh(p)

ThrottleStep(p) == ThrottleGet(p) \/ ThrottleSet(p)

\* _throttle called with an unauthenticated user (views.py 373-375).  No
\* handler does so: each one refuses the caller before it reaches the
\* throttle.  The return value False is the answer 429 of ThrottleGet.
BeginThrottleCall(p, action) ==
    /\ Free(p)
    /\ Enter(p, [Idle EXCEPT !.op = action, !.user = Anon,
                             !.pc = "t_get"])
    /\ UNCHANGED <<comments, votes, flags, cache, since>>

\* -------------------------------------------------------------- comment store
\* comments_list_create, POST (views.py 385-387, 447-461): the article is
\* looked up first, then authentication, then the throttle.
BeginCreate(p, u, a, content, stamp) ==
    /\ Free(p)
    /\ LET r == [Idle EXCEPT !.op = "create", !.method = "POST", !.user = u,
                             !.target = a, !.content = content, !.stamp = stamp]
       IN  Enter(p, IF a \notin Articles THEN Respond(r, 404)
                    ELSE IF ~is_authenticated(u) THEN Respond(r, 401)
                    ELSE [r EXCEPT !.pc = "t_get"])
    /\ UNCHANGED <<comments, votes, flags, cache, since>>

\* comment_reply (views.py 490-495): login_required, the parent is loaded,
\* then the throttle.
BeginReply(p, u, c, content, stamp) ==
    /\ Free(p)
    /\ LET r == [Idle EXCEPT !.op = "reply", !.method = "POST", !.user = u,
                             !.target = c, !.content = content, !.stamp = stamp]
       IN  Enter(p, IF ~is_authenticated(u) THEN Respond(r, 302)
                    ELSE IF c \notin CommentIds THEN Respond(r, 404)
                    ELSE [r EXCEPT !.pc = "t_get", !.snap = comments[c]])
    /\ UNCHANGED <<comments, votes, flags, cache, since>>

\* Comment.objects.create(article, user, content) of a top-level comment and
\* Comment(article=parent.article, user, parent, content).save() of a reply:
\* the INSERT; article and depth of a reply come from the parent object that
\* the handler loaded.
\* The notification block of comment_reply (views.py 509-520), after the
\* save.  Nothing is attempted for a reply to one's own comment; otherwise
\* the parent author's preferences and email address, which the comment
\* API does not hold, decide between no attempt ("skipped") and send_mail,
\* which delivers ("sent") or raises ("failed"), as can the lookup of the
\* preferences.  A top-level create has no such block ("none").
notify_outcomes(r) ==
    IF r.op # "reply" THEN {"none"}
    ELSE IF r.snap.user = r.user THEN {"skipped"}
    ELSE {"skipped", "sent", "failed"}

\* Mutant of reply_status: the exception of the notification is not caught.
reply_statusPropagates(outcome) == IF outcome = "failed" THEN 500 ELSE 201

\* try: ... except Exception: pass, then the 201 response (views.py 509-522).
reply_status(outcome) == 201

CommentInsert(p) ==
    /\ req[p].pc = "insert"
    /\ Len(comments) < MaxComments
    /\ LET r == req[p]
           row == IF r.op = "create"
                  THEN NewComment(r.target, r.user, 0, NoComment, r.content, r.stamp)
                  ELSE NewComment(r.snap.article, r.user, r.target, r.snap,
                                  r.content, r.stamp)
       IN  /\ comments' = Append(comments, row)
           /\ \E outcome \in notify_outcomes(r) :
                  Put(p, [Respond(r, reply_status(outcome)) EXCEPT
                             !.obj = Len(comments) + 1, !.notice = outcome])
    /\ UNCHANGED <<votes, flags, cache, since>>

\* Mutant of EditRefusal: the moderator's removal is not looked at.
EditRefusalOwnerOnly(comment, u, content) ==
    IF comment.user # u THEN 403
    ELSE IF ContentError(StripContent(content)) THEN 400
    ELSE 0

\* comment_edit (views.py 529-538): the status that refuses the edit of the
\* loaded comment, 0 when the edit goes ahead.
EditRefusal(comment, u, content) ==
    IF comment.user # u THEN 403
    ELSE IF comment.is_removed_moderator THEN 400
    ELSE IF ContentError(StripContent(content)) THEN 400
    ELSE 0

\* comment_edit (views.py 525-544).
BeginEdit(p, u, c, content, stamp) ==
    /\ Free(p)
    /\ LET r == [Idle EXCEPT !.op = "edit", !.method = "POST", !.user = u,
                             !.target = c, !.content = content, !.stamp = stamp]
       IN  Enter(p, IF ~is_authenticated(u) THEN Respond(r, 302)
                    ELSE IF c \notin CommentIds THEN Respond(r, 404)
                    ELSE IF EditRefusal(comments[c], u, content) # 0
                         THEN Respond(r, EditRefusal(comments[c], u, content))
                    ELSE [r EXCEPT !.pc = "e_save", !.snap = comments[c]])
    /\ UNCHANGED <<comments, votes, flags, cache, since>>

\* The row that comment.save(update_fields=['content', 'is_edited',
\* 'edited_at', 'updated_at']) leaves: the UPDATE writes the four columns
\* from the handler's object and no other column.
EditRow(row, r) ==
    [row EXCEPT !.content = StripContent(r.content), !.is_edited = TRUE,
                !.edited_at = r.stamp, !.updated_at = r.stamp]

EditSave(p) ==
    /\ req[p].pc = "e_save"
    /\ LET r == req[p]
       IN  /\ comments' = [comments EXCEPT
                             ![r.target] = EditRow(comments[r.target], r)]
           /\ Put(p, [Respond(r, 200) EXCEPT !.obj = r.target])
    /\ UNCHANGED <<votes, flags, cache, since>>

\* Mutant of DeleteRefusal: any logged-in caller may delete.
DeleteRefusalNone(comment, u) == 0

\* comment_delete (views.py 551-552): the status that refuses the delete.
DeleteRefusal(comment, u) ==
    IF comment.user # u /\ ~is_staff(u) THEN 403 ELSE 0

\* comment_delete (views.py 547-557).
BeginDelete(p, u, c, method, stamp) ==
    /\ Free(p)
    /\ LET r == [Idle EXCEPT !.op = "delete", !.method = method, !.user = u,
                             !.target = c, !.stamp = stamp]
       IN  Enter(p, IF ~is_authenticated(u) THEN Respond(r, 302)
                    ELSE IF c \notin CommentIds THEN Respond(r, 404)
                    ELSE IF DeleteRefusal(comments[c], u) # 0
                         THEN Respond(r, DeleteRefusal(comments[c], u))
                    ELSE [r EXCEPT !.pc = "x_save", !.snap = comments[c]])
    /\ UNCHANGED <<comments, votes, flags, cache, since>>

\* Mutant of DeleteRow: save() without update_fields, which writes every
\* column from the object the handler loaded.
DeleteRowAllColumns(row, r) ==
    [r.snap EXCEPT !.is_deleted_by_user = TRUE, !.updated_at = r.stamp]

\* The row that comment.save(update_fields=['is_deleted_by_user',
\* 'updated_at']) leaves.
DeleteRow(row, r) ==
    [row EXCEPT !.is_deleted_by_user = TRUE, !.updated_at = r.stamp]

DeleteSave(p) ==
    /\ req[p].pc = "x_save"
    /\ LET r == req[p]
       IN  /\ comments' = [comments EXCEPT
                             ![r.target] = DeleteRow(comments[r.target], r)]
           /\ Put(p, [Respond(r, 200) EXCEPT !.obj = r.target])
    /\ UNCHANGED <<votes, flags, cache, since>>

\* comment_moderate (views.py 560-569).  remove is the value of the 'remove'
\* form field, "absent" when the field is missing (request.POST.get gives
\* None); str(remove).lower() is then compared with the accepted spellings.
PyStrOf(x) == IF x = "absent" THEN "None" ELSE x
Lower(x) ==
    CASE x = "None" -> "none"
      [] x = "True" -> "true"
      [] x = "TRUE" -> "true"
      [] x = "False" -> "false"
      [] OTHER -> x

\* Mutant of remove_flag: every instruction removes.
remove_flagAlways(remove) == TRUE

remove_flag(remove) == Lower(PyStrOf(remove)) \in {"1", "true", "on", "yes"}

BeginModerate(p, u, c, remove, stamp) ==
    /\ Free(p)
    /\ LET r == [Idle EXCEPT !.op = "moderate", !.method = "POST", !.user = u,
                             !.target = c, !.remove = remove, !.stamp = stamp]
       IN  Enter(p, IF ~(is_authenticated(u) /\ is_staff(u)) THEN Respond(r, 302)
                    ELSE IF c \notin CommentIds THEN Respond(r, 404)
                    ELSE [r EXCEPT !.pc = "m_save", !.snap = comments[c]])
    /\ UNCHANGED <<comments, votes, flags, cache, since>>

\* Mutant of ModerateRow: a restore also lifts the author's deletion.
ModerateRowRestoresAll(row, r) ==
    [row EXCEPT !.is_removed_moderator = remove_flag(r.remove),
                !.is_deleted_by_user = @ /\ remove_flag(r.remove),
                !.updated_at = r.stamp]

\* The row that comment.save(update_fields=['is_removed_moderator',
\* 'updated_at']) leaves.
ModerateRow(row, r) ==
    [row EXCEPT !.is_removed_moderator = remove_flag(r.remove),
                !.updated_at = r.stamp]

ModerateSave(p) ==
    /\ req[p].pc = "m_save"
    /\ LET r == req[p]
       IN  /\ comments' = [comments EXCEPT
                             ![r.target] = ModerateRow(comments[r.target], r)]
           /\ Put(p, [Respond(r, 200) EXCEPT !.obj = r.target])
    /\ UNCHANGED <<votes, flags, cache, since>>

\* ---------------------------------------------------------------------- flags
FlagRows(c, u) == {f \in flags : f.comment = c /\ f.user = u}

\* Mutant of FlagUniqueViolation: the table has no unique_together.
FlagNotUnique(c, u) == FALSE

\* unique_together ('comment', 'user') of CommentFlag (models.py 155-156).
FlagUniqueViolation(c, u) == FlagRows(c, u) # {}

FlagIdsInUse == {f.id : f \in flags} \cup {req[p].obj : p \in Procs}
NextFlagId ==
    CHOOSE i \in 1 .. (Cardinality(FlagIdsInUse) + 1) :
        /\ i \notin FlagIdsInUse
        /\ \A j \in 1 .. (i - 1) : j \in FlagIdsInUse

\* note = request.POST.get('note', '')[:255]
NOTE_LENGTH == 255
TruncateNote(n) == [n EXCEPT !.len = IF n.len > NOTE_LENGTH THEN NOTE_LENGTH ELSE n.len]

\* comment_flag (views.py 572-577); reason is "absent" when the field is
\* missing and then defaults to 'other'.
BeginFlag(p, u, c, reason, note) ==
    /\ Free(p)
    /\ LET r == [Idle EXCEPT !.op = "flag", !.method = "POST", !.user = u,
                             !.target = c,
                             !.reason = IF reason = "absent" THEN "other" ELSE reason,
                             !.note = TruncateNote(note)]
       IN  Enter(p, IF ~is_authenticated(u) THEN Respond(r, 302)
                    ELSE IF c \notin CommentIds THEN Respond(r, 404)
                    ELSE [r EXCEPT !.pc = "f_get"])
    /\ UNCHANGED <<comments, votes, flags, cache, since>>

\* What follows get_or_create returning an existing flag (lines 583-587).
AfterFlagFound(r, row) == [r EXCEPT !.pc = "f_update", !.obj = row.id]

\* get_or_create: the initial get().
FlagGet(p) ==
    /\ req[p].pc = "f_get"
    /\ LET rows == FlagRows(req[p].target, req[p].user)
       IN  Put(p, IF rows = {} THEN [req[p] EXCEPT !.pc = "f_insert"]
                  ELSE IF Cardinality(rows) > 1 THEN Respond(req[p], 500)
                  ELSE AfterFlagFound(req[p], CHOOSE f \in rows : TRUE))
    /\ UNCHANGED <<comments, votes, flags, cache, since>>

\* get_or_create: create(); IntegrityError leads to the second get().
FlagInsert(p) ==
    /\ req[p].pc = "f_insert"
    /\ LET r == req[p]
       IN  IF FlagUniqueViolation(r.target, r.user)
           THEN /\ Put(p, [r EXCEPT !.pc = "f_reget"])
                /\ UNCHANGED flags
           ELSE /\ flags' = flags \cup {[id |-> NextFlagId, comment |-> r.target,
                                         user |-> r.user, reason |-> r.reason,
                                         note |-> r.note]}
                /\ Put(p, Respond(r, 200))
    /\ UNCHANGED <<comments, votes, cache, since>>

FlagReget(p) ==
    /\ req[p].pc = "f_reget"
    /\ LET rows == FlagRows(req[p].target, req[p].user)
       IN  Put(p, IF Cardinality(rows) # 1 THEN Respond(req[p], 500)
                  ELSE AfterFlagFound(req[p], CHOOSE f \in rows : TRUE))
    /\ UNCHANGED <<comments, votes, flags, cache, since>>

\* obj.save(update_fields=['reason', 'note'])
FlagUpdate(p) ==
    /\ req[p].pc = "f_update"
    /\ LET r == req[p]
           rows == {f \in flags : f.id = r.obj}
       IN  IF rows = {}
           THEN /\ Put(p, Respond(r, 500))
                /\ UNCHANGED flags
           ELSE /\ flags' = (flags \ rows) \cup
                               {[f EXCEPT !.reason = r.reason, !.note = r.note] :
                                    f \in rows}
                /\ Put(p, Respond(r, 200))
    /\ UNCHANGED <<comments, votes, cache, since>>

\* --------------------------------------------------------------------- reads
\* The texts that stand for the content of a deleted or removed comment.
DELETED_TEXT == Content("[deleted]", 9, FALSE)
REMOVED_TEXT == Content("[removed by moderator]", 22, FALSE)

\* Mutant of visible_content: the moderator's removal is looked at first.
visible_contentRemovedFirst(c) ==
    IF c.is_removed_moderator THEN REMOVED_TEXT
    ELSE IF c.is_deleted_by_user THEN DELETED_TEXT
    ELSE StripContent(c.content)

\* _serialize_comment (views.py 324-328): the content shown.
visible_content(c) ==
    IF c.is_deleted_by_user THEN DELETED_TEXT
    ELSE IF c.is_removed_moderator THEN REMOVED_TEXT
    ELSE StripContent(c.content)

\* Mutant of parent_username: resolved only at the display cap and beyond.
parent_usernamePastCap(c) ==
    IF c.parent # 0 /\ c.depth >= MAX_DEPTH THEN comments[c.parent].user
    ELSE "None"

\* _serialize_comment (views.py 345-348): the username of the author of
\* the parent row, None ("None") for a comment without a parent.
parent_username(c) ==
    IF c.parent # 0 THEN comments[c.parent].user ELSE "None"

\* _serialize_comment (views.py 321-370) for the viewer u and the row id.
\* user_vote is the viewer's vote from the vote table, which both the
\* mapping built by the read handlers and the fallback query give.
serialize_comment(u, id) ==
    LET c == comments[id]
        is_owner == is_authenticated(u) /\ c.user = u
    IN  [id |-> id,
         article_id |-> c.article,
         user |-> c.user,
         parent_id |-> c.parent,
         parent_username |-> parent_username(c),
         content |-> visible_content(c),
         created_at |-> c.created_at,
         updated_at |-> c.updated_at,
         edited_at |-> c.edited_at,
         is_edited |-> c.is_edited,
         is_removed_moderator |-> c.is_removed_moderator,
         is_deleted_by_user |-> c.is_deleted_by_user,
         is_approved |-> c.is_approved,
         score |-> c.cached_score,
         user_vote |-> IF is_authenticated(u) THEN UserVote(id, u) ELSE 0,
         depth |-> c.depth,
         can_edit |-> is_owner /\ ~c.is_removed_moderator,
         can_delete |-> is_owner,
         can_moderate |-> IF is_authenticated(u) THEN is_staff(u) ELSE FALSE]

\* Mutant of Before: rows of equal score and creation time in id order.
BeforeOldestFirst(x, y) ==
    \/ comments[x].cached_score > comments[y].cached_score
    \/ /\ comments[x].cached_score = comments[y].cached_score
       /\ \/ comments[x].created_at > comments[y].created_at
          \/ comments[x].created_at = comments[y].created_at /\ x < y

\* order_by('-cached_score', '-created_at', '-id'): row x comes before row y.
Before(x, y) ==
    \/ comments[x].cached_score > comments[y].cached_score
    \/ /\ comments[x].cached_score = comments[y].cached_score
       /\ \/ comments[x].created_at > comments[y].created_at
          \/ comments[x].created_at = comments[y].created_at /\ x > y

\* The rows of the set S in the order of the query.
RECURSIVE OrderBy(_)
OrderBy(S) ==
    IF S = {} THEN << >>
    ELSE LET first == CHOOSE x \in S : \A y \in S \ {x} : Before(x, y)
         IN  <<first>> \o OrderBy(S \ {first})

\* Paginator(object_list, per_page) with the defaults orphans = 0 and
\* allow_empty_first_page = True: num_pages, get_page(number).number and the
\* page's object_list.
PAGE_SIZE == 10
REPLIES_PAGE_SIZE == 10

num_pages(count, per_page) ==
    LET hits == IF count < 1 THEN 1 ELSE count
    IN  (hits + per_page - 1) \div per_page

\* get_page: a number that is no integer gives page 1, a number below 1 or
\* beyond the last page gives the last page.
page_number(number, pages) ==
    LET v == IF number.t = "str" THEN StrToInt(number.s)
             ELSE [ok |-> FALSE, n |-> 0]
    IN  IF ~v.ok THEN 1
        ELSE IF v.n < 1 \/ v.n > pages THEN pages
        ELSE v.n

\* Mutant of object_list: every page is the first one.
object_listFirstPage(rows, number, per_page) ==
    SubSeq(rows, 1, IF per_page > Len(rows) THEN Len(rows) ELSE per_page)

object_list(rows, number, per_page) ==
    LET bottom == (number - 1) * per_page
        top == IF bottom + per_page > Len(rows) THEN Len(rows)
               ELSE bottom + per_page
    IN  SubSeq(rows, bottom + 1, top)

Range(q) == {q[i] : i \in 1 .. Len(q)}

\* comments_list_create, GET (views.py 390-394): the top-level query.
top_level(a) ==
    OrderBy({c \in CommentIds : /\ comments[c].article = a
                                /\ comments[c].parent = 0
                                /\ comments[c].is_approved})

\* The prefetch loop (views.py 399-414): at most `iterations' rounds, each
\* loading the approved children of the rows of the round before and
\* appending them to their parent's list; cbp is children_by_parent.
PREFETCH_ROUNDS == 20

RECURSIVE Prefetch(_, _, _)
Prefetch(current_ids, iterations, cbp) ==
    IF iterations = 0 \/ current_ids = << >> THEN cbp
    ELSE LET qs == OrderBy({c \in CommentIds :
                                /\ comments[c].parent \in Range(current_ids)
                                /\ comments[c].is_approved})
         IN  Prefetch(qs, iterations - 1,
                      [n \in CommentIds |->
                          cbp[n] \o SelectSeq(qs, LAMBDA r : comments[r].parent = n)])

\* Mutant of children_by_parent: the loop runs once.
children_by_parentOneRound(top_ids) ==
    Prefetch(top_ids, 1, [n \in CommentIds |-> << >>])

children_by_parent(top_ids) ==
    Prefetch(top_ids, PREFETCH_ROUNDS, [n \in CommentIds |-> << >>])

\* Mutant of serialize_with_children: no node gets its children.
serialize_childless(u, node, cbp) ==
    serialize_comment(u, node) @@ [replies |-> << >>]

\* serialize_with_children (views.py 426-433).
RECURSIVE serialize_with_children(_, _, _)
serialize_with_children(u, node, cbp) ==
    serialize_comment(u, node)
        @@ [replies |-> [i \in 1 .. Len(cbp[node]) |->
                            serialize_with_children(u, cbp[node][i], cbp)]]

\* The body of the listing (views.py 388-445).
list_body(u, a, number) ==
    LET rows == top_level(a)
        pages == num_pages(Len(rows), PAGE_SIZE)
        page == page_number(number, pages)
        page_rows == object_list(rows, page, PAGE_SIZE)
        cbp == children_by_parent(page_rows)
    IN  [count |-> Len(rows),
         num_pages |-> pages,
         page |-> page,
         total_comments |->
             Cardinality({c \in CommentIds : /\ comments[c].article = a
                                              /\ comments[c].is_approved}),
         results |-> [i \in 1 .. Len(page_rows) |->
                         serialize_with_children(u, page_rows[i], cbp)]]

\* The body of comment_replies (views.py 465-487).
replies_body(u, c, number) ==
    LET rows == OrderBy({r \in CommentIds : /\ comments[r].parent = c
                                            /\ comments[r].is_approved})
        pages == num_pages(Len(rows), REPLIES_PAGE_SIZE)
        page == page_number(number, pages)
        page_rows == object_list(rows, page, REPLIES_PAGE_SIZE)
    IN  [count |-> Len(rows),
         num_pages |-> pages,
         page |-> page,
         results |-> [i \in 1 .. Len(page_rows) |->
                         serialize_comment(u, page_rows[i])]]

\* comments_list_create, GET, and comment_replies: queries only.
BeginList(p, u, a, number) ==
    /\ Free(p)
    /\ LET r == [Idle EXCEPT !.op = "list", !.method = "GET", !.user = u,
                             !.target = a, !.page = number]
       IN  Enter(p, IF a \notin Articles THEN Respond(r, 404)
                    ELSE [Respond(r, 200) EXCEPT !.body = list_body(u, a, number)])
    /\ UNCHANGED <<comments, votes, flags, cache, since>>

BeginReplies(p, u, c, number) ==
    /\ Free(p)
    /\ LET r == [Idle EXCEPT !.op = "replies", !.method = "GET", !.user = u,
                             !.target = c, !.page = number]
       IN  Enter(p, IF c \notin CommentIds THEN Respond(r, 404)
                    ELSE [Respond(r, 200) EXCEPT !.body = replies_body(u, c, number)])
    /\ UNCHANGED <<comments, votes, flags, cache, since>>


\* ------------------------------------------------------------ specifications
EmptyCache == [k \in ThrottleKeys |-> 0]

\* The empty store.
Init ==
    /\ comments = << >>
    /\ votes = {}
    /\ flags = {}
    /\ cache = EmptyCache
    /\ req = [p \in Procs |-> Idle]
    /\ out = Idle
    /\ pre = NoPre
    /\ since = NeverAllowed

\* The store of CommentVotingTests.setUp: one top-level comment by u1.
InitVote ==
    /\ comments = <<NewComment(1, "u1", 0, NoComment, Content("a", 1, FALSE), 1)>>
    /\ votes = {}
    /\ flags = {}
    /\ cache = EmptyCache
    /\ req = [p \in Procs |-> Idle]
    /\ out = Idle
    /\ pre = NoPre
    /\ since = NeverAllowed

\* ---------------------------------------------------------- request inputs
FormValue(s) == Payload(PyStr(s), "empty", PyNone)
VotePayloads == {FormValue(<<"1">>), FormValue(<<"-", "1">>)}
Voters == {"u1", "u2"}

\* A vote request as its inputs: a cast with a payload, or a DELETE, which
\* reads no payload.
VoteInputs(methods, payloads) ==
    {<<m, pl>> \in methods \X (payloads \cup {NoPayload}) :
        (m = "DELETE") = (pl = NoPayload)}

\* Strings of up to MaxRawLen characters, and the payloads that carry them.
RawStrings == UNION {[1 .. n -> Chars] : n \in 0 .. MaxRawLen}
JsonValues ==
    {PyNone, PyBool(TRUE), PyBool(FALSE)}
        \cup {PyStr(s) : s \in RawStrings}
        \cup {PyInt(n) : n \in -2 .. 2}
        \cup {PyFloat(t) : t \in {-19, -15, -10, -5, 0, 5, 10, 15, 19, 20}}
ParsePayloads ==
    {FormValue(s) : s \in RawStrings}
        \cup {Payload(PyNone, "qs", PyStr(s)) : s \in RawStrings}
        \cup {Payload(PyNone, "json", j) : j \in JsonValues}
        \cup {Payload(PyNone, "text", PyStr(s)) : s \in RawStrings}

Targets == {1, 0}
GoodContent == Content("a", 1, FALSE)
EditedContent == Content("b", MAX_COMMENT_LENGTH, TRUE)
BadContents == {Content("", 0, TRUE), Content("c", MAX_COMMENT_LENGTH + 1, FALSE)}
RemoveInputs == {"true", "false", "absent"}

\* No other request of the same user is in flight.
AloneInFlight(p, u) == \A q \in Procs \ {p} : Free(q) \/ req[q].user # u

Tick == Elapse(1)

\* --------------------------------------------------------- sequential votes
\* Votes on one comment, one request at a time, with and without the
\* throttle, one second passing at a time.
BeginVoteSeq(p) ==
    \E u \in Voters \cup {Anon}, c \in Targets,
       in \in VoteInputs({"POST", "PUT", "DELETE"}, VotePayloads), t \in BOOLEAN :
        BeginVote(p, u, c, in[1], in[2], t)

NextVoteSeq ==
    \/ Quiet /\ BeginVoteSeq(1)
    \/ \E p \in Procs : ThrottleStep(p)
    \/ \E p \in Procs : LedgerStep(p)
    \/ \E p \in Procs : VoteSave(p)
    \/ Tick
    \/ Deliver

SpecVoteSeq == InitVote /\ [][NextVoteSeq]_vars

\* ------------------------------------------------------- concurrent votes
\* Concurrent votes of pairwise distinct users on one comment.  The requests
\* skip the throttle (SERVER_NAME 'testserver'): the throttle only refuses
\* requests, so every interleaving of ledger statements of throttled requests
\* is one of these.
BeginVoteDistinct(p) ==
    \E u \in Voters, in \in VoteInputs({"POST", "DELETE"}, VotePayloads) :
        /\ AloneInFlight(p, u)
        /\ BeginVote(p, u, 1, in[1], in[2], TRUE)

NextVoteDistinct ==
    \/ \E p \in Procs : BeginVoteDistinct(p)
    \/ \E p \in Procs : LedgerStep(p)
    \/ \E p \in Procs : VoteSave(p)
    \/ Deliver

SpecVoteDistinct == InitVote /\ [][NextVoteDistinct]_vars

\* Concurrent votes, also of one user with several requests in flight.
BeginVoteAny(p) ==
    \E in \in VoteInputs({"POST", "DELETE"}, VotePayloads) :
        BeginVote(p, "u1", 1, in[1], in[2], TRUE)

NextVoteConc ==
    \/ \E p \in Procs : BeginVoteAny(p)
    \/ \E p \in Procs : LedgerStep(p)
    \/ \E p \in Procs : VoteSave(p)
    \/ \E p \in Procs : VoteReget(p)
    \/ Deliver

SpecVoteConc == InitVote /\ [][NextVoteConc]_vars

\* ------------------------------------------------------- submitted values
\* One voter sends every payload of ParsePayloads, one request at a time.
BeginVoteParse(p) ==
    \E in \in VoteInputs({"POST", "PUT", "DELETE"}, ParsePayloads) :
        BeginVote(p, "u2", 1, in[1], in[2], TRUE)

NextParse ==
    \/ Quiet /\ BeginVoteParse(1)
    \/ \E p \in Procs : LedgerStep(p)
    \/ \E p \in Procs : VoteSave(p)
    \/ Deliver

SpecParse == InitVote /\ [][NextParse]_vars

\* ---------------------------------------------------------------- throttle
\* The three throttled operations, one request at a time, one second passing
\* at a time: u1 creates, replies and votes, u2 votes (+1 and retraction,
\* so no vote is switched).  _throttle runs before
\* the content is looked at; the comments carry content that the handler
\* refuses afterwards, so that the store stays as it is.
BeginThrottled(p) ==
    \/ \E ct \in BadContents : BeginCreate(p, "u1", 1, ct, 1)
    \/ \E ct \in BadContents : BeginReply(p, "u1", 1, ct, 1)
    \/ \E u \in Voters, in \in VoteInputs({"POST", "DELETE"}, {FormValue(<<"1">>)}) :
           BeginVote(p, u, 1, in[1], in[2], FALSE)

NextThrottle ==
    \/ Quiet /\ BeginThrottled(1)
    \/ \E p \in Procs : ThrottleStep(p)
    \/ \E p \in Procs : LedgerStep(p)
    \/ Tick
    \/ Deliver

SpecThrottle == InitVote /\ [][NextThrottle]_vars

\* ------------------------------------------------------------ reply chains
\* u2 replies to the newest comment or to the one before it, REPLY_WINDOW
\* seconds passing between replies.
BeginChain(p) ==
    \E u \in {"u2", Anon}, c \in {0, Len(comments) - 1, Len(comments)},
       ct \in {GoodContent} \cup BadContents :
        BeginReply(p, u, c, ct, 1)

NextChain ==
    \/ Quiet /\ BeginChain(1)
    \/ \E p \in Procs : ThrottleStep(p)
    \/ \E p \in Procs : CommentInsert(p)
    \/ Elapse(REPLY_WINDOW)
    \/ Deliver

SpecChain == InitVote /\ [][NextChain]_vars

\* ------------------------------------------------------------- comment API
\* The comment API, one request at a time (slot 1), the operations in any
\* order.  u1 writes top-level comments, u2 replies and votes and flags, s1
\* is staff; edit, delete, moderate, flag and vote address the first comment
\* or a comment that does not exist; CREATE_WINDOW seconds may pass at any
\* time; comments are written while the store holds fewer than
\* MaxApiComments.  Rows are written at time 1 and changed at time 2.  A
\* request that is refused for its caller or its target comes in one
\* variant, the others in all.
BeginApi(p) ==
    \/ \E u \in {"u1", Anon}, a \in Articles \cup {0},
          ct \in {GoodContent} \cup BadContents :
           /\ Len(comments) < MaxApiComments
           /\ (u = Anon \/ a = 0) => ct = GoodContent
           /\ u = Anon => a = 1
           /\ BeginCreate(p, u, a, ct, 1)
    \/ \E u \in {"u2", Anon}, c \in 0 .. MaxApiComments,
          ct \in {GoodContent} \cup BadContents :
           /\ Len(comments) < MaxApiComments
           /\ (u = Anon \/ c \notin CommentIds) => ct = GoodContent
           /\ (u = Anon \/ c \notin CommentIds) => c \in Targets
           /\ BeginReply(p, u, c, ct, 1)
    \/ \E u \in Callers, c \in Targets, ct \in {EditedContent} \cup BadContents :
           /\ c = 0 => (u = "u1" /\ ct = EditedContent)
           /\ BeginEdit(p, u, c, ct, 2)
    \/ \E u \in Callers, c \in Targets :
           /\ c = 0 => u = "u1"
           /\ BeginDelete(p, u, c, "POST", 2)
    \/ \E u \in Callers, c \in Targets, rm \in RemoveInputs :
           /\ (c = 0 \/ ~is_staff(u)) => rm = "true"
           /\ c = 0 => is_staff(u)
           /\ BeginModerate(p, u, c, rm, 2)
    \/ \E u \in {"u2", Anon}, c \in Targets :
           /\ c = 0 => u = "u2"
           /\ BeginFlag(p, u, c, "spam", NoContent)
    \/ \E u \in {"u2", Anon}, c \in Targets,
          in \in VoteInputs({"PUT", "DELETE"}, {FormValue(<<"1">>)}) :
           /\ (u = Anon \/ c = 0) => in[1] = "PUT"
           /\ u = Anon => c = 1
           /\ BeginVote(p, u, c, in[1], in[2], FALSE)
    \/ \E u \in Callers, a \in {1, 0} :
           /\ a = 0 => u = Anon
           /\ BeginList(p, u, a, PyNone)
    \/ \E c \in Targets : BeginReplies(p, Anon, c, PyNone)
    \/ BeginThrottleCall(p, "create")

ApiStep(p) ==
    \/ ThrottleStep(p)
    \/ LedgerStep(p)
    \/ CommentInsert(p)
    \/ EditSave(p)
    \/ DeleteSave(p)
    \/ ModerateSave(p)
    \/ FlagGet(p)
    \/ FlagInsert(p)
    \/ FlagUpdate(p)

Next ==
    \/ Quiet /\ BeginApi(1)
    \/ \E p \in Procs : ApiStep(p)
    \/ Elapse(CREATE_WINDOW)
    \/ Deliver

Spec == Init /\ [][Next]_vars

\* ------------------------------------------------- overlapping mutations
\* Edit, delete, moderate, flag and vote requests on one comment, overlapping
\* in every way; a request in slot p stamps its save with p + 1.  Votes skip
\* the throttle (test server) and no user has two votes in flight.
BeginFrame(p) ==
    \/ BeginEdit(p, "u1", 1, EditedContent, p + 1)
    \/ \E u \in {"u1", "s1"} : BeginDelete(p, u, 1, "POST", p + 1)
    \/ \E rm \in {"true", "false"} : BeginModerate(p, "s1", 1, rm, p + 1)
    \/ \E rs \in {"spam", "abuse"} : BeginFlag(p, "u2", 1, rs, NoContent)
    \/ \E in \in VoteInputs({"PUT", "DELETE"}, {FormValue(<<"1">>)}) :
           /\ AloneInFlight(p, "u2")
           /\ BeginVote(p, "u2", 1, in[1], in[2], TRUE)

FrameStep(p) ==
    \/ LedgerStep(p)
    \/ EditSave(p)
    \/ DeleteSave(p)
    \/ ModerateSave(p)
    \/ FlagGet(p)
    \/ FlagInsert(p)
    \/ FlagReget(p)
    \/ FlagUpdate(p)

\* Two requests overlap: arrivals take the first two slots.
FrameSlots == {p \in Procs : p <= 2}

NextFrame ==
    \/ \E p \in FrameSlots : BeginFrame(p)
    \/ \E p \in Procs : FrameStep(p)
    \/ Deliver

SpecFrame == InitVote /\ [][NextFrame]_vars

\* ------------------------------------------------------------------ listing
\* Stores as the serialization tests build them with Comment.objects.create
\* (tests.py 254-386), read through the two GET endpoints.  A row of score
\* +1 or -1 has the vote of u1 that gives it that score.
Row(i, article, parent, depth, score, created, approved) ==
    [NoComment EXCEPT
        !.article = article,
        !.user = IF i % 2 = 0 THEN "u1" ELSE "u2",
        !.parent = parent, !.content = GoodContent, !.depth = depth,
        !.cached_score = score, !.created_at = created, !.updated_at = created,
        !.is_approved = approved]

\* n top-level comments; the comment `odd' is unapproved, on article 2 or a
\* reply to the first comment; sp and cp choose how scores and creation
\* times repeat.
FlatStore(n, odd, kind, sp, cp) ==
    [i \in 1 .. n |->
        Row(i,
            IF i = odd /\ kind = "article" THEN 2 ELSE 1,
            IF i = odd /\ kind = "reply" /\ i > 1 THEN 1 ELSE 0,
            IF i = odd /\ kind = "reply" /\ i > 1 THEN 1 ELSE 0,
            IF sp = 0 THEN 0 ELSE ((i * sp) % 3) - 1,
            CASE cp = 0 -> 1 [] cp = 1 -> i [] OTHER -> 1 + ((n - i) \div 2),
            ~(i = odd /\ kind = "unapproved"))]

\* A top-level comment and d replies below one another; the comment `hole'
\* is unapproved.
ChainStore(d, hole) ==
    [i \in 1 .. (d + 1) |-> Row(i, 1, i - 1, i - 1, 0, i, i # hole)]

\* A top-level comment, k direct replies, and one reply to each of the
\* first g direct replies.
FanStore(k, g, hole, sp) ==
    [i \in 1 .. (1 + k + g) |->
        IF i = 1 THEN Row(i, 1, 0, 0, 0, 1, TRUE)
        ELSE IF i <= k + 1
             THEN Row(i, 1, 1, 1, IF sp = 0 THEN 0 ELSE ((i * sp) % 3) - 1,
                      i, i # hole)
        ELSE Row(i, 1, i - k, 2, 0, i, i # hole)]

ListingStores ==
    {FlatStore(n, odd, kind, sp, cp) :
        n \in 0 .. MaxTop, odd \in {0, 1, 2, MaxTop - 1},
        kind \in {"unapproved", "article", "reply"}, sp \in 0 .. 2, cp \in 0 .. 2}
    \cup {ChainStore(d, hole) : d \in 0 .. MaxChain, hole \in 0 .. (MaxChain + 1)}
    \cup {FanStore(k, g, hole, sp) :
            k \in 0 .. MaxFan, g \in 0 .. 2, hole \in {0, 2, 3, MaxFan + 2},
            sp \in 0 .. 2}

StoreVotes(store) ==
    {[id |-> c, comment |-> c, user |-> "u1", value |-> store[c].cached_score] :
        c \in {i \in 1 .. Len(store) : store[i].cached_score # 0}}

InitListing ==
    /\ comments \in ListingStores
    /\ votes = StoreVotes(comments)
    /\ flags = {}
    /\ cache = EmptyCache
    /\ req = [p \in Procs |-> Idle]
    /\ out = Idle
    /\ pre = NoPre
    /\ since = NeverAllowed

\* request.GET.get('page'): absent, a page number, or no number at all.
Pages ==
    {PyNone, PyStr(<<"1">>), PyStr(<<"2">>), PyStr(<<"0">>),
     PyStr(<<"2", "2">>), PyStr(<<"x">>)}

BeginRead(p) ==
    \/ \E u \in {Anon, "u1"}, a \in Articles, number \in Pages :
           /\ (u = "u1" \/ a = 2) => number = PyNone
           /\ BeginList(p, u, a, number)
    \/ \E c \in {1, 2}, number \in {PyNone, PyStr(<<"2">>)} :
           BeginReplies(p, Anon, c, number)

NextListing ==
    \/ Quiet /\ BeginRead(1)
    \/ Deliver

SpecListing == InitListing /\ [][NextListing]_vars

\* ------------------------------------------------------ overlapping throttle
\* Two overlapping requests of u1 for top-level create and for reply, with
\* content that validation refuses, one second passing at a time.
BeginThrottleConc(p) ==
    \/ \E ct \in BadContents : BeginCreate(p, "u1", 1, ct, 1)
    \/ \E ct \in BadContents : BeginReply(p, "u1", 1, ct, 1)
    \/ \E action \in {"create", "reply"} : BeginThrottleCall(p, action)

NextThrottleConc ==
    \/ \E p \in FrameSlots : BeginThrottleConc(p)
    \/ \E p \in Procs : ThrottleStep(p)
    \/ Tick
    \/ Deliver

SpecThrottleConc == InitVote /\ [][NextThrottleConc]_vars

\* -------------------------------------------------------------------- flags
\* Flag requests on the first comment, two of them overlapping in every
\* way: u2 with a reason that is a category, missing, or no category, and
\* with a note that fits or is too long; u1 with one flag.
FlagReasons == {"spam", "absent", "bogus"}
FlagNotes == {NoContent, Content("n", NOTE_LENGTH + 1, FALSE)}

BeginFlagAny(p) ==
    \/ \E rs \in FlagReasons, n \in FlagNotes : BeginFlag(p, "u2", 1, rs, n)
    \/ \E u \in {"u1", Anon}, c \in Targets :
           /\ c = 0 => u = "u1"
           /\ BeginFlag(p, u, c, "hate", NoContent)

StepFlag(p) ==
    \/ FlagGet(p)
    \/ FlagInsert(p)
    \/ FlagReget(p)
    \/ FlagUpdate(p)

NextFlag ==
    \/ \E p \in FrameSlots : BeginFlagAny(p)
    \/ \E p \in Procs : StepFlag(p)
    \/ Deliver

SpecFlag == InitVote /\ [][NextFlag]_vars

\* ------------------------------------------------------------------ claims
\* A response is "answered alone" when its request met no other request:
\* out.pre then holds the tables as the request found them.
AnsweredAlone == out # Idle /\ out.pre.valid
FoundComments == 1 .. Len(out.pre.comments)

\* C1: once every request of pairwise distinct users has completed, the
\* comment's cached_score is the sum of the vote rows that exist for it.
C1_ScoreIsSumWhenQuiet ==
    Quiet => \A c \in CommentIds : comments[c].cached_score = VoteSum(c)

\* Two users' requests overlapped and left a +1 and a -1.
C1_Witness ==
    /\ Quiet
    /\ out.op = "vote" /\ out.status = 200 /\ ~out.pre.valid
    /\ \E v, w \in votes : v.user # w.user /\ v.value = 1 /\ w.value = -1

\* C2: a vote request answered alone changes cached_score by the caller's
\* vote after the call minus the caller's vote before it (no row counts 0);
\* after a cast the caller's vote is the value cast, after a DELETE it is 0;
\* user_vote of the response is the caller's vote after the call, and no
\* other user's row changes.
VoteBefore == SumValues({v \in out.pre.votes :
                            v.comment = out.target /\ v.user = out.user})
VoteAfter == UserVote(out.target, out.user)
ValueCast == IF out.payload = FormValue(<<"1">>) THEN 1 ELSE -1

C2_VoteDelta ==
    (AnsweredAlone /\ out.op = "vote" /\ out.status = 200) =>
        /\ comments[out.target].cached_score
             - out.pre.comments[out.target].cached_score = VoteAfter - VoteBefore
        /\ VoteAfter = (IF out.method = "DELETE" THEN 0 ELSE ValueCast)
        /\ out.user_vote = VoteAfter
        /\ {v \in votes : v.user # out.user}
             = {v \in out.pre.votes : v.user # out.user}

\* A switch from -1 to +1 has moved the score by +2.
C2_Witness ==
    /\ AnsweredAlone /\ out.op = "vote" /\ out.status = 200
    /\ VoteBefore = -1 /\ VoteAfter = 1
    /\ comments[out.target].cached_score
         = out.pre.comments[out.target].cached_score + 2

\* C3: at most one vote row per (comment, user), every stored value is +1
\* or -1, also while requests of one user run concurrently.
C3_OneVotePerPair ==
    /\ \A c \in CommentIds, u \in Users : Cardinality(VoteRows(c, u)) <= 1
    /\ \A v \in votes : v.value \in {-1, 1}

\* A request's INSERT met the row that a concurrent request of the same user
\* had inserted.
C3_Witness ==
    \E p \in Procs : /\ req[p].pc = "v_reget"
                     /\ VoteRows(req[p].target, req[p].user) # {}

\* C4: a POST or PUT whose value is missing, is no integer, or is an integer
\* other than -1 or +1 is answered 400 and leaves votes and cached_score as
\* they were.  The value submitted is read generously: surrounding blanks
\* and a sign are part of an integer, true counts as 1 and 1.0 as 1, and a
\* raw body "value<text>" submits the first signed run of digits of <text>.
RECURSIVE DigitRun(_)
DigitRun(s) ==
    IF s # << >> /\ Head(s) \in Digits THEN <<Head(s)>> \o DigitRun(Tail(s))
    ELSE << >>

FirstNumber(text) ==
    LET r == SkipNonNumeric(text)
    IN  IF r # << >> /\ Head(r) = "-" THEN <<"-">> \o DigitRun(Tail(r))
        ELSE DigitRun(r)

SubmittedValue(pl) ==
    IF pl.param.t # "none" THEN pl.param
    ELSE CASE pl.kind = "qs" -> PyStr(QsDecode(pl.body.s))
           [] pl.kind = "json" -> pl.body
           [] pl.kind = "text" -> PyStr(FirstNumber(pl.body.s))
           [] OTHER -> PyNone

IsPlusOrMinusOne(pl) ==
    LET v == SubmittedValue(pl)
    IN  CASE v.t = "str" -> StrToInt(v.s).ok /\ StrToInt(v.s).n \in {-1, 1}
          [] v.t = "int" -> v.n \in {-1, 1}
          [] v.t = "bool" -> v.n = 1
          [] v.t = "float" -> v.n \in {-10, 10}
          [] OTHER -> FALSE

C4_InvalidValueRejected ==
    (AnsweredAlone /\ out.op = "vote" /\ out.method \in {"POST", "PUT"}
        /\ ~IsPlusOrMinusOne(out.payload)) =>
        /\ out.status = 400
        /\ votes = out.pre.votes
        /\ comments = out.pre.comments

\* C5: _throttle allows a call exactly when the window of its own (action,
\* user) pair has passed since the latest allowed call of that pair, and
\* refuses it otherwise; an allowed call starts the window of its own pair
\* and of no other; a marker lives exactly for the window.
C5_MarkerLivesForWindow ==
    \A k \in ThrottleKeys : cache[k] = Window(k[1]) - since[k]

C5_ThrottleStep ==
    \A p \in Procs :
        LET k == <<req[p].op, req[p].user>>
        IN  /\ (req[p].pc = "t_get" /\ req'[p] # req[p]) =>
                /\ cache' = cache
                /\ IF since[k] >= Window(k[1])
                   THEN req'[p].pc = "t_set"
                   ELSE req'[p].pc = "idle" /\ out'.status = 429
            /\ (req[p].pc = "t_set" /\ req'[p] # req[p]) =>
                /\ cache'[k] = Window(k[1])
                /\ since'[k] = 0
                /\ \A j \in ThrottleKeys \ {k} :
                       cache'[j] = cache[j] /\ since'[j] = since[j]

C5_Throttle == [][C5_ThrottleStep]_vars /\ []C5_MarkerLivesForWindow

\* u1's vote is allowed again after its window, while u2's vote marker and
\* u1's reply marker are live.
C5_Witness ==
    /\ req[1].pc = "t_set" /\ req[1].op = "vote" /\ req[1].user = "u1"
    /\ VoteRows(1, "u1") # {}
    /\ cache[<<"vote", "u2">>] > 0
    /\ cache[<<"reply", "u1">>] > 0

\* C6: edit, delete, flag, moderate and the reads never change a marker and
\* are never answered 429; every request to the vote endpoint, DELETE
\* included, goes through _throttle: a DELETE is answered 429 while the
\* caller's vote marker is live, and otherwise sets it.
Unthrottled == {"edit", "delete", "flag", "moderate", "list", "replies"}
IsRetraction(r) == r.op = "vote" /\ r.method = "DELETE"

UnthrottledStep ==
    \/ \E p \in Procs : /\ req'[p] # req[p]
                        /\ \/ req[p].op \in Unthrottled
                           \/ req'[p].op \in Unthrottled
    \/ out = Idle /\ out' # Idle /\ out'.op \in Unthrottled

RetractionStep ==
    \/ \E p \in Procs : /\ req'[p] # req[p]
                        /\ \/ req[p].pc # "idle" /\ IsRetraction(req[p])
                           \/ req'[p].pc # "idle" /\ IsRetraction(req'[p])
    \/ out = Idle /\ out' # Idle /\ IsRetraction(out')

NotLimited == cache' = cache /\ (out' # Idle => out'.status # 429)

C6_ThrottledStep ==
    /\ UnthrottledStep => NotLimited
    /\ \A p \in Procs :
        LET k == <<"vote", req[p].user>>
        IN  /\ (req[p].pc = "t_get" /\ IsRetraction(req[p]) /\ req'[p] # req[p]) =>
                IF cache[k] > 0 THEN out'.status = 429 ELSE req'[p].pc = "t_set"
            /\ (req[p].pc = "t_set" /\ IsRetraction(req[p]) /\ req'[p] # req[p]) =>
                cache'[k] = VOTE_WINDOW

C6_ThrottledOperations == [][C6_ThrottledStep]_vars

\* The claim as stated: a DELETE on the vote endpoint, like the unthrottled
\* operations, is never answered 429 and never sets a marker.
C6_RetractionNotLimited ==
    [][(UnthrottledStep \/ RetractionStep) => NotLimited]_vars

\* u1 edits while u1's create marker is live.
C6_Witness ==
    /\ out.op = "edit" /\ out.status = 200 /\ out.user = "u1"
    /\ cache[<<"create", "u1">>] > 0

C8_DepthZeroIffTopLevel ==
    \A c \in CommentIds :
        /\ (comments[c].depth = 0) <=> (comments[c].parent = 0)
        /\ comments[c].parent # 0 =>
            /\ comments[c].parent \in CommentIds
            /\ comments[c].article = comments[comments[c].parent].article

\* A reply on article 2 under a comment that was edited, deleted, removed,
\* flagged and voted on.
C8_Witness ==
    /\ \E c \in CommentIds : comments[c].parent = 1 /\ comments[c].article = 2
    /\ comments[1].is_edited /\ comments[1].is_deleted_by_user
    /\ comments[1].is_removed_moderator
    /\ votes # {} /\ flags # {}

\* C9: an edit by someone other than the author, or of a moderator-removed
\* comment, is refused and leaves content, is_edited and edited_at alone; an
\* edit by the author of a comment that is not moderator-removed, with valid
\* content, succeeds, stores the stripped content, sets is_edited and
\* edited_at, also when the comment is self-deleted.
C9_EditRule ==
    (AnsweredAlone /\ out.op = "edit" /\ out.target \in FoundComments) =>
        LET old == out.pre.comments[out.target]
            new == comments[out.target]
        IN  /\ (old.user # out.user \/ old.is_removed_moderator) =>
                /\ out.status \in {302, 400, 403}
                /\ new.content = old.content
                /\ new.is_edited = old.is_edited
                /\ new.edited_at = old.edited_at
            /\ (old.user = out.user /\ ~old.is_removed_moderator
                  /\ ~ContentError(StripContent(out.content))) =>
                /\ out.status = 200
                /\ new.content = StripContent(out.content)
                /\ new.is_edited
                /\ new.edited_at = out.stamp /\ out.stamp # 0

\* The author has edited a comment that was self-deleted.
C9_Witness ==
    /\ AnsweredAlone /\ out.op = "edit" /\ out.status = 200
    /\ out.pre.comments[out.target].is_deleted_by_user
    /\ comments[out.target].content # out.pre.comments[out.target].content

\* C10: a delete succeeds only for the author or a staff user, any other
\* logged-in caller is answered 403; a refused delete changes nothing; a
\* successful one sets is_deleted_by_user (and the row's updated_at) and
\* nothing else: no comment, vote or flag row is removed or changed.
C10_DeleteRule ==
    (AnsweredAlone /\ out.op = "delete" /\ out.target \in FoundComments) =>
        LET old == out.pre.comments[out.target]
        IN  /\ out.status = 200 => (old.user = out.user \/ is_staff(out.user))
            /\ (is_authenticated(out.user) /\ old.user # out.user
                  /\ ~is_staff(out.user)) => out.status = 403
            /\ comments =
                 IF out.status = 200
                 THEN [out.pre.comments EXCEPT
                          ![out.target].is_deleted_by_user = TRUE,
                          ![out.target].updated_at = out.stamp]
                 ELSE out.pre.comments
            /\ votes = out.pre.votes
            /\ flags = out.pre.flags

\* Staff has deleted u1's comment, which has a reply and a vote.
C10_Witness ==
    /\ AnsweredAlone /\ out.op = "delete" /\ out.status = 200
    /\ is_staff(out.user) /\ comments[out.target].user # out.user
    /\ comments[out.target].is_deleted_by_user
    /\ \E c \in CommentIds : comments[c].parent = out.target
    /\ \E v \in votes : v.comment = out.target

\* C11: once is_deleted_by_user of a comment is true, no step of any request
\* of any user makes it false again, and the comment stays stored; a staff
\* moderate sets is_removed_moderator on a removing instruction and clears
\* it on any other, whatever the flag was before, so that it can be set and
\* cleared any number of times.
C11_DeletionStep ==
    /\ \A c \in CommentIds :
           comments[c].is_deleted_by_user =>
               c \in DOMAIN comments' /\ comments'[c].is_deleted_by_user
    /\ \A p \in Procs :
           (req[p].pc = "m_save" /\ req'[p] # req[p]) =>
               comments'[req[p].target].is_removed_moderator
                   = (req[p].remove = "true")

C11_DeletionTerminal == [][C11_DeletionStep]_vars

\* Staff has restored a comment that was removed while self-deleted, after
\* it had been edited; the comment is still self-deleted.
C11_Witness ==
    /\ AnsweredAlone /\ out.op = "moderate" /\ out.status = 200
    /\ out.remove # "true"
    /\ out.pre.comments[out.target].is_removed_moderator
    /\ out.pre.comments[out.target].is_deleted_by_user
    /\ out.pre.comments[out.target].is_edited
    /\ comments[out.target].is_deleted_by_user
    /\ ~comments[out.target].is_removed_moderator

\* C12: a moderate by a caller who is not staff is refused and changes
\* nothing; a moderate by staff leaves is_removed_moderator equal to the
\* instruction (true for a removing instruction, false for a restoring or
\* missing one) whatever it was before, so that the same instruction twice
\* leaves what it leaves once and a restore after a remove leaves false; it
\* changes nothing else but the row's updated_at.
C12_ModerateRule ==
    (AnsweredAlone /\ out.op = "moderate" /\ out.target \in FoundComments) =>
        /\ (out.status = 200) = is_staff(out.user)
        /\ comments =
             IF is_staff(out.user)
             THEN [out.pre.comments EXCEPT
                      ![out.target].is_removed_moderator = (out.remove = "true"),
                      ![out.target].updated_at = out.stamp]
             ELSE out.pre.comments
        /\ votes = out.pre.votes
        /\ flags = out.pre.flags

\* Staff has removed a comment that was already removed.
C12_Witness ==
    /\ AnsweredAlone /\ out.op = "moderate" /\ out.status = 200
    /\ out.remove = "true"
    /\ out.pre.comments[out.target].is_removed_moderator
    /\ comments[out.target].is_removed_moderator

\* C13: every comment serialized by a read shows "[deleted]" when it is
\* self-deleted (also when it is moderator-removed as well), otherwise
\* "[removed by moderator]" when it is moderator-removed, otherwise its
\* stored content; its score is the row's cached_score in all three cases;
\* this for every viewer.
RECURSIVE NodesOf(_)
NodesOf(results) ==
    UNION {{results[i]} \cup NodesOf(results[i].replies) :
              i \in 1 .. Len(results)}

\* The comments serialized in the response, as nodes of a tree (listing) or
\* as a plain page (replies).
Serialized ==
    IF out.op = "list" /\ out.status = 200 THEN NodesOf(out.body.results)
    ELSE IF out.op = "replies" /\ out.status = 200 THEN Range(out.body.results)
    ELSE {}

C13_Overlay ==
    \A n \in Serialized :
        LET c == comments[n.id]
        IN  /\ n.content =
                 IF c.is_deleted_by_user THEN Content("[deleted]", 9, FALSE)
                 ELSE IF c.is_removed_moderator
                      THEN Content("[removed by moderator]", 22, FALSE)
                 ELSE c.content
            /\ n.score = c.cached_score

\* A listing for staff shows "[deleted]" for a comment that is self-deleted
\* and moderator-removed and has score 1, next to a reply shown as stored.
C13_Witness ==
    /\ out.op = "list" /\ out.user = "s1"
    /\ \E n \in Serialized :
          /\ comments[n.id].is_deleted_by_user
          /\ comments[n.id].is_removed_moderator
          /\ n.content.text = "[deleted]" /\ n.score = 1
          /\ \E m \in Range(n.replies) :
                 m.content = comments[m.id].content /\ m.content.len > 0

\* C14 as stated: for every serialized comment and viewer, can_edit is
\* (viewer is the author and the comment is not moderator-removed),
\* can_delete is (viewer is the author or staff), can_moderate is (viewer is
\* staff); can_delete is true exactly when the delete endpoint would let
\* the viewer delete the comment.
C14_CapabilityFlags ==
    \A n \in Serialized :
        LET c == comments[n.id]
            u == out.user
        IN  /\ n.can_edit = (c.user = u /\ ~c.is_removed_moderator)
            /\ n.can_delete = (c.user = u \/ is_staff(u))
            /\ n.can_moderate = is_staff(u)
            /\ n.can_delete = (is_authenticated(u) /\ DeleteRefusal(c, u) = 0)

\* C15: every step of an edit request changes at most content, is_edited,
\* edited_at (and the timestamp updated_at) of its comment, every step of a
\* delete request at most is_deleted_by_user (and updated_at), every step of
\* a moderate request at most is_removed_moderator (and updated_at), every
\* step of a flag request at most flag rows of its caller; so none changes
\* cached_score, a vote row, depth, parent or article, also while votes and
\* other mutations on the same comment are in flight: once all requests
\* have completed the score is the sum of the vote rows.  An edit does
\* replace the stored content of a self-deleted comment; an edit that meets
\* no other request never changes the content of a moderator-removed one.
Mutations == {"edit", "delete", "moderate", "flag"}

\* The requests that take the step: as they were before and as they are after.
Acting ==
    {req[p] : p \in {q \in Procs : req'[q] # req[q]}}
        \cup {req'[p] : p \in {q \in Procs : req'[q] # req[q]}}
        \cup (IF out = Idle THEN {out'} ELSE {})

\* The row without the columns that the operation may write.
Masked(row, op) ==
    CASE op = "edit" ->
            [row EXCEPT !.content = NoContent, !.is_edited = FALSE,
                        !.edited_at = 0, !.updated_at = 0]
      [] op = "delete" ->
            [row EXCEPT !.is_deleted_by_user = FALSE, !.updated_at = 0]
      [] op = "moderate" ->
            [row EXCEPT !.is_removed_moderator = FALSE, !.updated_at = 0]
      [] OTHER -> row

C15_FrameStep ==
    \A r \in Acting :
        r.op \in Mutations =>
            /\ votes' = votes
            /\ DOMAIN comments' = DOMAIN comments
            /\ \A c \in CommentIds :
                   /\ Masked(comments'[c], r.op) = Masked(comments[c], r.op)
                   /\ c # r.target => comments'[c] = comments[c]
            /\ IF r.op = "flag"
               THEN \A f \in (flags \ flags') \cup (flags' \ flags) :
                       f.comment = r.target /\ f.user = r.user
               ELSE flags' = flags

C15_ScoreKept ==
    Quiet => \A c \in CommentIds : comments[c].cached_score = VoteSum(c)

C15_RemovedContentKept ==
    (AnsweredAlone /\ out.op = "edit" /\ out.target \in FoundComments
        /\ out.pre.comments[out.target].is_removed_moderator) =>
        comments[out.target].content = out.pre.comments[out.target].content

C15_HiddenContentKeptStep ==
    \A r \in Acting :
        r.op \in Mutations =>
            \A c \in CommentIds :
                (comments[c].is_deleted_by_user \/ comments[c].is_removed_moderator)
                    => comments'[c].content = comments[c].content

Listed ==
    IF out.op = "list" /\ out.status = 200 THEN NodesOf(out.body.results)
    ELSE {}

ApprovedChildren(c) ==
    {r \in CommentIds : comments[r].parent = c /\ comments[r].is_approved}

\* C16: the top-level listing of an article holds only approved comments of
\* that article without a parent; of two returned comments the earlier has
\* the strictly greater key (score, created_at, id); a page holds at most 10
\* comments, num_pages is max(1, ceil(count / 10)), and the page returned
\* holds exactly the comments whose rank in that order falls on it, so that
\* every such comment is on exactly one of the pages 1 .. num_pages.
Eligible(a) ==
    {c \in CommentIds : /\ comments[c].article = a
                        /\ comments[c].parent = 0
                        /\ comments[c].is_approved}

KeyGreater(x, y) ==
    \/ x.score > y.score
    \/ x.score = y.score /\ x.created_at > y.created_at
    \/ x.score = y.score /\ x.created_at = y.created_at /\ x.id > y.id

\* The number of eligible comments that the order puts before c.
Rank(a, c) ==
    Cardinality({d \in Eligible(a) :
        KeyGreater([score |-> comments[d].cached_score,
                    created_at |-> comments[d].created_at, id |-> d],
                   [score |-> comments[c].cached_score,
                    created_at |-> comments[c].created_at, id |-> c])})

C16_TopLevelPages ==
    (out.op = "list" /\ out.status = 200) =>
        LET b == out.body
            count == Cardinality(Eligible(out.target))
        IN  /\ \A i \in 1 .. Len(b.results) : b.results[i].id \in Eligible(out.target)
            /\ \A i, j \in 1 .. Len(b.results) :
                   i < j => KeyGreater(b.results[i], b.results[j])
            /\ Len(b.results) <= 10
            /\ b.count = count
            /\ b.num_pages = (IF count = 0 THEN 1 ELSE (count + 9) \div 10)
            /\ b.page \in 1 .. b.num_pages
            /\ {b.results[i].id : i \in 1 .. Len(b.results)}
                 = {c \in Eligible(out.target) :
                        (Rank(out.target, c) \div 10) + 1 = b.page}

\* Page 2 of an article with more than 10 eligible comments, next to an
\* unapproved one, two of the eligible ones equal in score and creation time.
C16_Witness ==
    /\ out.op = "list" /\ out.status = 200
    /\ out.body.page = 2 /\ out.body.num_pages = 2
    /\ Len(out.body.results) \in 1 .. 9
    /\ \E c \in CommentIds : comments[c].article = out.target /\ ~comments[c].is_approved
    /\ \E c, d \in Eligible(out.target) :
          /\ c # d
          /\ comments[c].cached_score = comments[d].cached_score
          /\ comments[c].created_at = comments[d].created_at

\* C17: in a listing, a node at most 19 levels below its top-level comment
\* holds in replies exactly its approved direct children, each once; a node
\* 20 levels below holds none.  So every approved descendant within 20
\* levels whose ancestors are approved is nested under its immediate parent,
\* deeper ones are absent, and the response is a normal one.
RECURSIVE WellNested(_, _)
WellNested(node, level) ==
    LET expected == IF level < 20 THEN ApprovedChildren(node.id) ELSE {}
    IN  /\ {node.replies[i].id : i \in 1 .. Len(node.replies)} = expected
        /\ Len(node.replies) = Cardinality(expected)
        /\ \A i \in 1 .. Len(node.replies) :
               WellNested(node.replies[i], level + 1)

C18_ReplyCount ==
    \A n \in Listed :
        /\ "reply_count" \in DOMAIN n
        /\ n.reply_count = Cardinality({c \in CommentIds : comments[c].parent = n.id})

\* C19 as stated: a node of a listing whose comment has more than 5 approved
\* direct replies holds only 5 of them in replies.
C19_ReplyBatch ==
    \A n \in Listed :
        Cardinality(ApprovedChildren(n.id)) > 5 => Len(n.replies) = 5

RECURSIVE TopOf(_)
TopOf(c) == IF comments[c].parent = 0 THEN c ELSE TopOf(comments[c].parent)

RECURSIVE AncestorsApproved(_)
AncestorsApproved(c) ==
    /\ comments[c].is_approved
    /\ comments[c].parent # 0 => AncestorsApproved(comments[c].parent)

Thread(t) ==
    {c \in CommentIds : c # t /\ TopOf(c) = t /\ AncestorsApproved(c)}

ChildRank(c) ==
    Cardinality({d \in ApprovedChildren(comments[c].parent) :
        KeyGreater([score |-> comments[d].cached_score,
                    created_at |-> comments[d].created_at, id |-> d],
                   [score |-> comments[c].cached_score,
                    created_at |-> comments[c].created_at, id |-> c])})

C22_ParentUsername ==
    \A n \in Serialized :
        n.parent_username =
            IF comments[n.id].parent = 0 THEN "None"
            ELSE comments[comments[n.id].parent].user

\* A listing with a reply at depth 1 and one beyond the display cap, whose
\* parents have different authors.
C22_Witness ==
    /\ out.op = "list"
    /\ \E n, m \in Serialized :
          /\ comments[n.id].depth = 1 /\ comments[m.id].depth > MAX_DEPTH
          /\ n.parent_username = "u2" /\ m.parent_username = "u1"

\* C23: a reply by a logged-in caller to a stored comment that passes the
\* throttle and the content checks is answered 201 and stored as the newest
\* row, whether the notification was not attempted, was sent or failed; no
\* other row changes.
C23_ReplyDespiteNotification ==
    (AnsweredAlone /\ out.op = "reply" /\ is_authenticated(out.user)
        /\ out.target \in FoundComments /\ out.status # 429
        /\ ~ContentError(StripContent(out.content))) =>
        /\ out.notice \in {"skipped", "sent", "failed"}
        /\ out.status = 201
        /\ Len(comments) = Len(out.pre.comments) + 1
        /\ SubSeq(comments, 1, Len(out.pre.comments)) = out.pre.comments
        /\ out.obj = Len(comments)
        /\ comments[out.obj].parent = out.target
        /\ comments[out.obj].user = out.user
        /\ comments[out.obj].content = StripContent(out.content)

\* The notification of u1 about u2's reply has failed; the reply is stored
\* and answered 201.
C23_Witness ==
    /\ out.op = "reply" /\ out.notice = "failed" /\ out.status = 201
    /\ comments[out.obj].parent = out.target
    /\ comments[out.target].user # out.user

\* C24: there is at most one flag row per (comment, user), also while flag
\* requests of one user overlap; a flag request that meets no other request
\* and finds no row of its caller for the comment adds one row with its
\* reason and note, one that finds a row overwrites that row's reason and
\* note and adds none; no other row changes.
C24_FlagUpsert ==
    /\ \A c \in CommentIds, u \in Users : Cardinality(FlagRows(c, u)) <= 1
    /\ (AnsweredAlone /\ out.op = "flag" /\ is_authenticated(out.user)
          /\ out.target \in FoundComments) =>
            LET old == {f \in out.pre.flags :
                           f.comment = out.target /\ f.user = out.user}
                new == FlagRows(out.target, out.user)
            IN  /\ out.status = 200
                /\ flags \ new = out.pre.flags \ old
                /\ \A f \in new : f.reason = out.reason /\ f.note = out.note
                /\ \A f \in new, g \in old : f.id = g.id
                /\ Cardinality(new) = 1

\* The INSERT of a flag request has met the row that an overlapping request
\* of the same user had inserted; the request goes on to overwrite it.
C24_Witness ==
    \E p \in Procs :
        /\ req[p].pc = "f_update" /\ ~pre.valid
        /\ \E f \in FlagRows(req[p].target, req[p].user) :
               f.id = req[p].obj /\ f.reason # req[p].reason
        /\ \E q \in Procs \ {p} : req[q].user = req[p].user /\ req[q].pc = "f_update"

\* C28 as stated: the reason of every stored flag is one of the categories
\* spam, abuse, hate, other.
C28_ReasonIsCategory ==
    \A f \in flags : f.reason \in {"spam", "abuse", "hate", "other"}

\* C25 as stated: of the overlapping requests of one user for one throttled
\* action, at most one has been let past the marker's lookup; no two of them
\* stand between the lookup that found no marker and the marker's write.
C25_OneAllowed ==
    \A p, q \in Procs :
        (p # q /\ req[p].pc = "t_set" /\ req[q].pc = "t_set") =>
            ThrottleKey(req[p]) # ThrottleKey(req[q])

\* C26 as stated: once every one of the overlapping vote requests of one
\* user on a comment has completed, the comment's cached_score is the sum of
\* the values of the vote rows that exist for the comment.
C26_SameUserScore ==
    (out = Idle /\ \A p \in Procs : req[p].pc = "idle") =>
        \A c \in CommentIds :
            comments[c].cached_score = UserVote(c, "u1") + UserVote(c, "u2")

\* C27 as stated: no step changes the stored content of a comment whose
\* is_removed_moderator is stored as true and stays true.
C27_NoEditAfterRemovalStep ==
    \A c \in CommentIds :
        (comments[c].is_removed_moderator /\ comments'[c].is_removed_moderator)
            => comments'[c].content = comments[c].content

C27_NoEditAfterRemoval == [][C27_NoEditAfterRemovalStep]_vars

\* C29: a create or a reply of an authenticated user whose content is empty
\* or longer than MAX_COMMENT_LENGTH is answered 400 and creates no comment,
\* and by then it has set the marker of its (action, user) pair; while that
\* marker is live, the user's next request for the action is answered 429
\* and creates no comment either.
C29_RefusedAfterMarker ==
    (out # Idle /\ out.op \in {"create", "reply"} /\ out.status = 400) =>
        /\ ContentError(StripContent(out.content))
        /\ comments = out.pre.comments
        /\ cache[<<out.op, out.user>>] = Window(out.op)
        /\ since[<<out.op, out.user>>] = 0

C29_NextRequestStep ==
    \A p \in Procs :
        (/\ req[p].pc = "t_get" /\ req[p].op \in {"create", "reply"}
         /\ req'[p] # req[p]
         /\ since[<<req[p].op, req[p].user>>] < Window(req[p].op)) =>
            /\ out'.status = 429 /\ out'.op = req[p].op
            /\ comments' = comments /\ cache' = cache

C29_ThrottleBeforeValidation ==
    []C29_RefusedAfterMarker /\ [][C29_NextRequestStep]_vars

\* A create of u1 is answered 429 nine seconds after u1's latest allowed
\* create, which was answered 400: no request has ever made a comment.
C29_Witness ==
    /\ out.op = "create" /\ out.status = 429 /\ out.user = "u1"
    /\ since[<<"create", "u1">>] = CREATE_WINDOW - 1
    /\ comments = out.pre.comments
    /\ Len(comments) = 1

\* C30: a request answered 401, 404 or 429 leaves comments, votes and flags
\* as they were when it arrived; _throttle called with an unauthenticated
\* user returns False (the answer 429) and changes no marker.
C30_Rejected ==
    (AnsweredAlone /\ out.status \in {401, 404, 429}) =>
        /\ comments = out.pre.comments
        /\ votes = out.pre.votes
        /\ flags = out.pre.flags

C30_AnonymousThrottleStep ==
    \A p \in Procs :
        (req[p].pc = "t_get" /\ ~is_authenticated(req[p].user)
            /\ req'[p] # req[p]) =>
            /\ out'.status = 429 /\ req'[p].pc = "idle"
            /\ cache' = cache /\ since' = since

C30_RejectionsChangeNothing ==
    []C30_Rejected /\ [][C30_AnonymousThrottleStep]_vars

\* _throttle has refused an unauthenticated caller while the store held two
\* comments, a vote and a flag and no marker was live.
C30_Witness ==
    /\ AnsweredAlone /\ out.user = Anon /\ out.status = 429
    /\ Len(comments) = 2 /\ votes # {} /\ flags # {}
    /\ \A k \in ThrottleKeys : cache[k] = 0

====
